---- MODULE Spec2Model ----
(***************************************************************************)
(* Model of the todo application's server side (the src_solution tree):    *)
(* the oRPC procedure tiers (logging and authentication middleware), the   *)
(* endpoint registry (appRouter / todosRouter), the Zod input and output   *)
(* schemas, and TodosService running against the todos relation.           *)
(*                                                                         *)
(* A call is one request/response round trip.  Every call action applies   *)
(* the whole chain  logging -> authentication -> input schema -> handler   *)
(* -> service -> output schema  to the current store and records what the  *)
(* caller and the logger observed in `last`, and the store the call        *)
(* started from in `pre`.                                                  *)
(***************************************************************************)
EXTENDS Integers, Sequences, FiniteSets, TLC

VARIABLES
  todos,   \* the rows of the todos relation
  nextId,  \* the ids generated so far are 1..nextId-1
  now,     \* the clock sessions expire against
  last,    \* the call just served: request, response, stages run, log lines
  pre,     \* the todos relation as that call found it
  inflight, \* a toggle call between its read and its write, if there is one
  cache    \* the todos page's query cache entry for the list query

vars == <<todos, nextId, now, last, pre, inflight, cache>>

(***************************************************************************)
(* Bounds of the model.                                                    *)
(***************************************************************************)
MaxTodos == 2
MaxClock == 1

(***************************************************************************)
(* Program constants: CreateTodoDto / UpdateTodoDto title length limits.   *)
(***************************************************************************)
MinTitleLen == 1
MaxTitleLen == 500

(***************************************************************************)
(* Data.  A title is a string; the model takes the strings c^n (n copies   *)
(* of the character c) and writes them as the pair of c and n.  The        *)
(* schemas look only at the length, the store keeps the whole value.       *)
(***************************************************************************)
MkTitle(c, n) == [ch |-> IF n = 0 THEN "" ELSE c, len |-> n]

TitleLen(t) == t.len

EmptyTitle == MkTitle("", 0)

ValidTitles == {MkTitle("a", MinTitleLen), MkTitle("b", MaxTitleLen)}

InvalidTitles == {EmptyTitle, MkTitle("b", MaxTitleLen + 1)}

Titles == ValidTitles \cup InvalidTitles

Ids == 1..MaxTodos

UsersTable == {[id |-> "u1", email |-> "u1@example.com"],
               [id |-> "u2", email |-> "u2@example.com"]}

UserIds == {u.id : u \in UsersTable}

\* sessions rows: token (unique), owning user, expiry instant.  "s3" expires
\* at the first tick of the clock, "s1" and "s2" outlive the model's clock.
SessionsTable == {[token |-> "s1", userId |-> "u1", expiresAt |-> MaxClock + 1],
                  [token |-> "s2", userId |-> "u2", expiresAt |-> MaxClock + 1],
                  [token |-> "s3", userId |-> "u1", expiresAt |-> 0]}

NoToken == "none"

Tokens == {s.token : s \in SessionsTable} \cup {NoToken}

(***************************************************************************)
(* Failures.  class is the JavaScript class of the thrown value, code the  *)
(* ORPCError code, cause the class of its cause.                           *)
(***************************************************************************)
NoError == [class |-> "none", code |-> "", message |-> "", cause |-> "none"]

Unauthorized ==
  [class |-> "ORPCError", code |-> "UNAUTHORIZED", message |-> "", cause |-> "none"]

InputValidationFailed ==
  [class |-> "ORPCError", code |-> "BAD_REQUEST",
   message |-> "Input validation failed", cause |-> "ValidationError"]

OutputValidationRaw ==
  [class |-> "ORPCError", code |-> "INTERNAL_SERVER_ERROR",
   message |-> "Output validation failed", cause |-> "ValidationError"]

OutputValidationFailed ==
  [class |-> "ORPCError", code |-> "OUTPUT_VALIDATION_FAILED", message |-> "",
   cause |-> "ValidationError"]

\* The ValidationError an ORPCError carries as its cause.
ValidationError ==
  [class |-> "ValidationError", code |-> "", message |-> "Output validation failed",
   cause |-> "none"]

TodoNotFound ==
  [class |-> "Error", code |-> "", message |-> "Todo not found", cause |-> "none"]

NoValuesToSet ==
  [class |-> "Error", code |-> "", message |-> "No values to set", cause |-> "none"]

(***************************************************************************)
(* The todos relation.  A row is [id, title, completed, userId,            *)
(* createdAt]; id is the primary key.  createdAt comes from                *)
(* timestampFields (databaseUtils): the instant the row was inserted.  No  *)
(* service method sets it; list orders by it.  updatedAt, which no service *)
(* method reads, is left out.                                              *)
(* `.returning()` yields the affected rows as an array, modelled as a      *)
(* sequence; `const [x] = rows` keeps its first element, and x is          *)
(* undefined (the empty sequence here) when there is none.                 *)
(***************************************************************************)
RECURSIVE SetToSeq(_)
SetToSeq(S) ==
  IF S = {} THEN <<>>
  ELSE LET x == CHOOSE y \in S : TRUE IN <<x>> \o SetToSeq(S \ {x})

First(rows) == IF rows = <<>> THEN <<>> ELSE <<rows[1]>>

\* Variant: the predicate eq(todos.id, todoId) alone, without the owner.
MatchesIdAndOwner_IdOnly(row, todoId, userId) == row.id = todoId

\* and(eq(todos.id, todoId), eq(todos.userId, userId))
MatchesIdAndOwner(row, todoId, userId) == row.id = todoId /\ row.userId = userId

\* Variant: findMany without its where clause.
MatchesOwner_Missing(row, userId) == TRUE

\* eq(todos.userId, userId)
MatchesOwner(row, userId) == row.userId = userId

\* Variant: findMany without its orderBy.
FindManyResults_Unordered(db, userId) ==
  LET rows == {r \in db : MatchesOwner(r, userId)}
      n == Cardinality(rows)
  IN {s \in [1..n -> rows] : \A i, j \in 1..n : i # j => s[i] # s[j]}

\* findMany({where: eq(userId), orderBy: [desc(createdAt)]}): the matching
\* rows, each once, by descending createdAt; rows with equal createdAt come
\* in an order the store decides.
FindManyResults(db, userId) ==
  LET rows == {r \in db : MatchesOwner(r, userId)}
      n == Cardinality(rows)
  IN {s \in [1..n -> rows] :
        /\ \A i, j \in 1..n : i # j => s[i] # s[j]
        /\ \A i, j \in 1..n : i < j => s[i].createdAt >= s[j].createdAt}

\* findFirst({where: and(id, userId)})
FindFirst(db, todoId, userId) ==
  First(SetToSeq({r \in db : MatchesIdAndOwner(r, todoId, userId)}))

\* timestampFields.createdAt: the column's default is the instant of the
\* insert.
CreatedAtDefault(at) == at

\* Variant: the id column without a generated default.
InsertRow_ConstantId(id, title, userId, at) ==
  [id |-> 1, title |-> title, completed |-> FALSE, userId |-> userId,
   createdAt |-> at]

\* insert(todos).values({title, userId}).returning(): id from $defaultFn,
\* completed and createdAt from their column defaults.
InsertRow(id, title, userId, at) ==
  [id |-> id, title |-> title, completed |-> FALSE, userId |-> userId,
   createdAt |-> CreatedAtDefault(at)]

\* The values object handed to .set(): the keys present and their values.
SetValues(keys, title, completed) ==
  [keys |-> keys, title |-> title, completed |-> completed]

\* Variant: the statement also writes the userId column.
ApplySet_WritesOwner(row, values) ==
  [row EXCEPT !.title = IF "title" \in values.keys THEN values.title ELSE @,
              !.completed = IF "completed" \in values.keys
                              THEN values.completed ELSE @,
              !.userId = "u2"]

ApplySet(row, values) ==
  [row EXCEPT !.title = IF "title" \in values.keys THEN values.title ELSE @,
              !.completed = IF "completed" \in values.keys
                              THEN values.completed ELSE @]

\* Variant: the where clause of the update names the owner alone.
DbUpdate_OwnerOnly(db, values, todoId, userId) ==
  IF values.keys = {}
    THEN [db |-> db, thrown |-> TRUE, err |-> NoValuesToSet, rows |-> <<>>]
    ELSE [db |-> {IF r.userId = userId THEN ApplySet(r, values) ELSE r : r \in db},
          thrown |-> FALSE, err |-> NoError,
          rows |-> SetToSeq({ApplySet(r, values) : r \in {x \in db : x.userId = userId}})]

\* update(todos).set(values).where(and(id, userId)).returning().  Drizzle's
\* .set() rejects a values object with no defined key ("No values to set")
\* before any statement is sent.
DbUpdate(db, values, todoId, userId) ==
  IF values.keys = {}
    THEN [db |-> db, thrown |-> TRUE, err |-> NoValuesToSet, rows |-> <<>>]
    ELSE LET hit == {r \in db : MatchesIdAndOwner(r, todoId, userId)}
         IN [db |-> (db \ hit) \cup {ApplySet(r, values) : r \in hit},
             thrown |-> FALSE, err |-> NoError,
             rows |-> SetToSeq({ApplySet(r, values) : r \in hit})]

\* Variant: delete filtered by the owner alone.
DbDelete_ByOwner(db, todoId, userId) ==
  [db |-> {r \in db : r.userId # userId},
   rows |-> SetToSeq({r \in db : r.userId = userId})]

\* delete(todos).where(and(id, userId)).returning()
DbDelete(db, todoId, userId) ==
  LET hit == {r \in db : MatchesIdAndOwner(r, todoId, userId)}
  IN [db |-> db \ hit, rows |-> SetToSeq(hit)]

(***************************************************************************)
(* TodosService.  Each method gives the store it leaves and either the     *)
(* value it returns or the failure it throws.                              *)
(***************************************************************************)
Returns(db, value) == [db |-> db, ok |-> TRUE, value |-> value, err |-> NoError]

Throws(db, err) == [db |-> db, ok |-> FALSE, value |-> <<>>, err |-> err]

\* Variant: list answers from the rows kept from before the latest call.
ServiceList_Stale(db, userId, order) ==
  [db |-> db, ok |-> TRUE,
   value |-> SetToSeq({r \in pre : r.userId = userId}), err |-> NoError]

\* `order` is the ordering the store answered with.
ServiceList(db, userId, order) == Returns(db, order)

\* Variant: the owner taken from the request data instead of the caller.
ServiceCreate_OwnerFromData(db, userId, data, newId, at) ==
  [db |-> db \cup {[id |-> newId, title |-> data.title, completed |-> FALSE,
                    userId |-> data.userId, createdAt |-> at]},
   ok |-> TRUE,
   value |-> <<[id |-> newId, title |-> data.title, completed |-> FALSE,
                userId |-> data.userId, createdAt |-> at]>>,
   err |-> NoError]

ServiceCreate(db, userId, data, newId, at) ==
  LET row == InsertRow(newId, data.title, userId, at)
  IN Returns(db \cup {row}, First(<<row>>))

\* toggle, after its read: `existing` is what findFirst answered.
ToggleWrite(u) ==
  IF u.thrown THEN Throws(u.db, u.err) ELSE Returns(u.db, First(u.rows))

\* Variant: toggle writes completed = true instead of the negation.
ToggleExisting_SetsTrue(db, userId, todoId, existing) ==
  IF existing = <<>>
    THEN [db |-> db, ok |-> FALSE, value |-> <<>>, err |-> TodoNotFound]
    ELSE [db |-> {IF MatchesIdAndOwner(r, todoId, userId)
                    THEN [r EXCEPT !.completed = TRUE] ELSE r : r \in db},
          ok |-> TRUE,
          value |-> <<[existing[1] EXCEPT !.completed = TRUE]>>,
          err |-> NoError]

\* Variant: the write filtered by eq(todos.id, todoId) alone.
ToggleExisting_WriteByIdOnly(db, userId, todoId, existing) ==
  IF existing = <<>>
    THEN [db |-> db, ok |-> FALSE, value |-> <<>>, err |-> TodoNotFound]
    ELSE [db |-> {IF r.id = todoId
                    THEN [r EXCEPT !.completed = ~existing[1].completed]
                    ELSE r : r \in db},
          ok |-> TRUE,
          value |-> First(SetToSeq(
                      {[r EXCEPT !.completed = ~existing[1].completed] :
                         r \in {x \in db : x.id = todoId}})),
          err |-> NoError]

\* Variant: the write also requires completed to be what the read saw.
ToggleExisting_Optimistic(db, userId, todoId, existing) ==
  IF existing = <<>>
    THEN [db |-> db, ok |-> FALSE, value |-> <<>>, err |-> TodoNotFound]
    ELSE [db |-> {IF /\ MatchesIdAndOwner(r, todoId, userId)
                     /\ r.completed = existing[1].completed
                    THEN [r EXCEPT !.completed = ~existing[1].completed]
                    ELSE r : r \in db},
          ok |-> TRUE,
          value |-> First(SetToSeq(
                      {[r EXCEPT !.completed = ~existing[1].completed] :
                         r \in {x \in db : /\ MatchesIdAndOwner(x, todoId, userId)
                                           /\ x.completed = existing[1].completed}})),
          err |-> NoError]

ToggleExisting(db, userId, todoId, existing) ==
  IF existing = <<>>
    THEN Throws(db, TodoNotFound)
    ELSE ToggleWrite(DbUpdate(db,
           SetValues({"completed"}, EmptyTitle, ~existing[1].completed),
           todoId, userId))

ServiceToggle(db, userId, todoId) ==
  ToggleExisting(db, userId, todoId, FindFirst(db, todoId, userId))

\* update, after its statement: u is what the store answered.
UpdateResult(u) ==
  IF u.thrown THEN Throws(u.db, u.err)
  ELSE IF First(u.rows) = <<>> THEN Throws(u.db, TodoNotFound)
  ELSE Returns(u.db, First(u.rows))

ServiceUpdate(db, userId, data) ==
  UpdateResult(DbUpdate(db,
    SetValues(data.keys \cap {"title", "completed"}, data.title, data.completed),
    data.id, userId))

\* delete, after its statement: d is what the store answered.
DeleteResult(d) ==
  IF First(d.rows) = <<>> THEN Throws(d.db, TodoNotFound)
                          ELSE Returns(d.db, First(d.rows))

ServiceDelete(db, userId, todoId) == DeleteResult(DbDelete(db, todoId, userId))

\* The store statements one call of a service method awaits, in order.  No
\* method has a loop or a catch around its statements: each is awaited once,
\* and toggle's update is reached only when findFirst answered with a row.
Statements(ep, db, userId, data) ==
  CASE ep = "todos.list" -> <<"findMany">>
    [] ep = "todos.create" -> <<"insert">>
    [] ep = "todos.toggle" ->
         IF FindFirst(db, data.id, userId) = <<>>
           THEN <<"findFirst">>
           ELSE <<"findFirst", "update">>
    [] ep = "todos.update" ->
         IF DbUpdate(db, SetValues(data.keys \cap {"title", "completed"},
                                   data.title, data.completed),
                     data.id, userId).thrown
           THEN <<>>
           ELSE <<"update">>
    [] ep = "todos.delete" -> <<"delete">>
    [] OTHER -> <<>>

(***************************************************************************)
(* Request payloads and the Zod schemas.  A payload is the set of keys it  *)
(* carries and their values (a key that is absent has the default value).  *)
(* z.object() parsing keeps the declared keys and strips the others.       *)
(***************************************************************************)
Payload(keys, id, title, completed, userId) ==
  [keys |-> keys,
   id |-> IF "id" \in keys THEN id ELSE 0,
   title |-> IF "title" \in keys THEN title ELSE EmptyTitle,
   completed |-> IF "completed" \in keys THEN completed ELSE FALSE,
   userId |-> IF "userId" \in keys THEN userId ELSE ""]

Strip(input, declared) ==
  Payload(input.keys \cap declared, input.id, input.title, input.completed,
          input.userId)

Parsed(data) == [ok |-> TRUE, data |-> data]

Rejected == [ok |-> FALSE, data |-> Payload({}, 0, EmptyTitle, FALSE, "")]

\* Variant: the title schema without .max(500).
CreateTodoDto_NoMax(input) ==
  IF "title" \in input.keys /\ TitleLen(input.title) >= MinTitleLen
    THEN [ok |-> TRUE,
          data |-> [keys |-> {"title"}, id |-> 0, title |-> input.title,
                    completed |-> FALSE, userId |-> ""]]
    ELSE [ok |-> FALSE,
          data |-> [keys |-> {}, id |-> 0, title |-> EmptyTitle,
                    completed |-> FALSE, userId |-> ""]]

\* z.object({ title: z.string().min(1).max(500) })
CreateTodoDto(input) ==
  IF /\ "title" \in input.keys
     /\ TitleLen(input.title) >= MinTitleLen
     /\ TitleLen(input.title) <= MaxTitleLen
    THEN Parsed(Strip(input, {"title"}))
    ELSE Rejected

\* Variant: the title of an update is any string.
UpdateTodoDto_AnyTitle(input) ==
  IF "id" \in input.keys
    THEN [ok |-> TRUE,
          data |-> [keys |-> input.keys \cap {"id", "title", "completed"},
                    id |-> input.id,
                    title |-> IF "title" \in input.keys THEN input.title
                                                       ELSE EmptyTitle,
                    completed |-> IF "completed" \in input.keys
                                    THEN input.completed ELSE FALSE,
                    userId |-> ""]]
    ELSE [ok |-> FALSE,
          data |-> [keys |-> {}, id |-> 0, title |-> EmptyTitle,
                    completed |-> FALSE, userId |-> ""]]

\* z.object({ id: z.string(), title: z.string().min(1).max(500).optional(),
\*            completed: z.boolean().optional() })
UpdateTodoDto(input) ==
  IF /\ "id" \in input.keys
     /\ "title" \in input.keys =>
          TitleLen(input.title) >= MinTitleLen /\ TitleLen(input.title) <= MaxTitleLen
    THEN Parsed(Strip(input, {"id", "title", "completed"}))
    ELSE Rejected

\* z.object({ id: z.string() })
IdInput(input) ==
  IF "id" \in input.keys THEN Parsed(Strip(input, {"id"})) ELSE Rejected

\* TodoDto on a handler result: an undefined result does not match; a row of
\* the todos relation does.
TodoDto(value) == Len(value) = 1

\* z.array(TodoDto): findMany always answers with an array of rows.
TodoDtoArray(value) == TRUE

(***************************************************************************)
(* The endpoint registry: tier, input schema, handler, output schema.      *)
(***************************************************************************)
TodosEndpoints ==
  {"todos.list", "todos.create", "todos.toggle", "todos.update", "todos.delete"}

Endpoints == {"ping", "getProfile"} \cup TodosEndpoints

\* Variant: every endpoint on authProcedure.
RequiresAuth_Everywhere(ep) == ep \in Endpoints

\* ping is on commonProcedure, everything else adds authMiddleware.
RequiresAuth(ep) == ep # "ping"

ParseInput(ep, input) ==
  CASE ep = "todos.create" -> CreateTodoDto(input)
    [] ep = "todos.update" -> UpdateTodoDto(input)
    [] ep \in {"todos.toggle", "todos.delete"} -> IdInput(input)
    [] OTHER -> Parsed(input)

ValidOutput(ep, value) ==
  CASE ep = "todos.list" -> TodoDtoArray(value)
    [] ep \in TodosEndpoints \ {"todos.list"} -> TodoDto(value)
    [] OTHER -> TRUE

\* Variant: the user id read from the request input.
ServiceUserId_FromInput(ep, user, data) == data.userId

\* The first argument every todos handler gives the service: context.user.id.
ServiceUserId(ep, user, data) == user.id

\* The handlers: `user` is context.user, `data` the parsed input.
Handler(ep, db, user, data, newId, at, order) ==
  CASE ep = "ping" -> Returns(db, <<"pong">>)
    [] ep = "getProfile" -> Returns(db, <<[email |-> user.email]>>)
    [] ep = "todos.list" ->
         ServiceList(db, ServiceUserId(ep, user, data), order)
    [] ep = "todos.create" ->
         ServiceCreate(db, ServiceUserId(ep, user, data), data, newId, at)
    [] ep = "todos.toggle" ->
         ServiceToggle(db, ServiceUserId(ep, user, data), data.id)
    [] ep = "todos.update" ->
         ServiceUpdate(db, ServiceUserId(ep, user, data), data)
    [] ep = "todos.delete" ->
         ServiceDelete(db, ServiceUserId(ep, user, data), data.id)

CallsService(ep) == ep \in TodosEndpoints

(***************************************************************************)
(* The procedure chain.  A stage's outcome: the store it leaves, the value *)
(* or failure, the stages entered, what was logged, the response headers   *)
(* set, and the identity the handler worked with: the id of context.user   *)
(* it ran under and the user id it gave the service ("" where there was    *)
(* none).                                                                  *)
(***************************************************************************)
NoIdentity == [ctx |-> "", svc |-> ""]

Outcome(db, ok, value, err, stages, logged, headers) ==
  [db |-> db, ok |-> ok, value |-> value, err |-> err, stages |-> stages,
   logged |-> logged, headers |-> headers, identity |-> NoIdentity]

\* Outcome o of a handler that ran under context user ctx and called the
\* service for user svc.
WithIdentity(o, ctx, svc) == [o EXCEPT !.identity = [ctx |-> ctx, svc |-> svc]]

\* Outcome o of a middleware wrapped around the stage that did r.
Around(r, o) == [o EXCEPT !.identity = r.identity]

NoUser == [id |-> "", email |-> ""]

\* Variant: the session lookup without the expiry test.
GetSession_IgnoringExpiry(token, at) ==
  SetToSeq({[session |-> s, user |-> CHOOSE u \in UsersTable : u.id = s.userId] :
              s \in {x \in SessionsTable : x.token = token}})

\* auth.api.getSession({headers}): the session carried by the headers and its
\* user, or nothing when there is no such session or its expiry instant has
\* passed.
GetSession(token, at) ==
  SetToSeq({[session |-> s, user |-> CHOOSE u \in UsersTable : u.id = s.userId] :
              s \in {x \in SessionsTable : x.token = token /\ ~(x.expiresAt < at)}})

\* The output schema applied to what the handler h returned or threw; `ran`
\* are the stages entered so far.
CheckOutput(ep, h, ran) ==
  IF ~h.ok
    THEN Outcome(h.db, FALSE, <<>>, h.err, ran, <<>>, {})
    ELSE IF ~ValidOutput(ep, h.value)
      THEN Outcome(h.db, FALSE, <<>>, OutputValidationRaw, ran \o <<"output">>,
                   <<>>, {})
      ELSE Outcome(h.db, TRUE, h.value, NoError, ran \o <<"output">>, <<>>, {})

\* Variant: the handler runs whatever the input schema said.
AfterInput_NoGate(ep, db, user, parsed, newId, at, order) ==
  WithIdentity(
    CheckOutput(ep, Handler(ep, db, user, parsed.data, newId, at, order),
                <<"input", "handler">> \o
                  (IF CallsService(ep) THEN <<"service">> ELSE <<>>)),
    user.id, IF CallsService(ep) THEN user.id ELSE "")

\* The handler runs on the parsed input unless the input schema rejected it.
AfterInput(ep, db, user, parsed, newId, at, order) ==
  IF ~parsed.ok
    THEN Outcome(db, FALSE, <<>>, InputValidationFailed, <<"input">>, <<>>, {})
    ELSE WithIdentity(
           CheckOutput(ep, Handler(ep, db, user, parsed.data, newId, at, order),
                       <<"input", "handler">> \o
                         (IF CallsService(ep) THEN <<"service">> ELSE <<>>)),
           user.id,
           IF CallsService(ep) THEN ServiceUserId(ep, user, parsed.data) ELSE "")

\* Input schema, handler, output schema: what runs after the middlewares.
RunHandler(ep, db, user, input, newId, at, order) ==
  AfterInput(ep, db, user, ParseInput(ep, input), newId, at, order)

CacheControl == [name |-> "Cache-Control", value |-> "no-store,private,must-revalidate"]

\* authMiddleware after `await next(...)`: r is what the rest of the chain
\* did.  Cache-Control is set on the response next() returned; a failure of
\* next() propagates past the assignment.
AuthReturn(r) ==
  Around(r, Outcome(r.db, r.ok, r.value, r.err, <<"auth", "session">> \o r.stages,
                    r.logged,
                    IF r.ok THEN r.headers \cup {CacheControl} ELSE r.headers))

\* authMiddleware: reject without a session; otherwise run the rest with the
\* session's user in the context.  Its first statement is the session lookup
\* (stage "session"), a read of the store's sessions relation.
AuthWithSession(ep, db, authState, input, newId, at, order) ==
  IF authState = <<>>
    THEN Outcome(db, FALSE, <<>>, Unauthorized, <<"auth", "session">>, <<>>, {})
    ELSE AuthReturn(RunHandler(ep, db, authState[1].user, input, newId, at, order))

\* Variant: the input schema applied before the session lookup.
AuthMiddleware_InputFirst(ep, db, token, input, newId, at, order) ==
  IF ~ParseInput(ep, input).ok
    THEN Outcome(db, FALSE, <<>>, InputValidationFailed, <<"input">>, <<>>, {})
    ELSE AuthWithSession(ep, db, GetSession(token, at), input, newId, at, order)

AuthMiddleware(ep, db, token, input, newId, at, order) ==
  AuthWithSession(ep, db, GetSession(token, at), input, newId, at, order)

\* Variant: the relabelling looks at the cause alone, not at the code.
LogOutcome_RelabelsAnyValidation(r) ==
  [db |-> r.db, ok |-> r.ok, value |-> r.value,
   err |-> IF ~r.ok /\ r.err.cause = "ValidationError"
             THEN OutputValidationFailed ELSE r.err,
   stages |-> <<"logging">> \o r.stages,
   logged |-> IF r.ok THEN r.logged
              ELSE IF r.err.cause = "ValidationError"
                THEN r.logged \o <<ValidationError>>
                ELSE r.logged \o <<r.err>>,
   headers |-> r.headers, identity |-> r.identity]

\* Variant: every failure is logged and rethrown as it came.
LogOutcome_Rethrows(r) ==
  [db |-> r.db, ok |-> r.ok, value |-> r.value, err |-> r.err,
   stages |-> <<"logging">> \o r.stages,
   logged |-> IF r.ok THEN r.logged ELSE r.logged \o <<r.err>>,
   headers |-> r.headers, identity |-> r.identity]

\* loggingMiddleware around r, what next() did: on failure log, relabel an
\* output-schema failure as OUTPUT_VALIDATION_FAILED and rethrow anything
\* else unchanged.
LogOutcome(r) ==
  IF r.ok
    THEN Around(r, Outcome(r.db, TRUE, r.value, r.err, <<"logging">> \o r.stages,
                           r.logged, r.headers))
    ELSE IF /\ r.err.class = "ORPCError"
            /\ r.err.code = "INTERNAL_SERVER_ERROR"
            /\ r.err.cause = "ValidationError"
      THEN Around(r, Outcome(r.db, FALSE, <<>>, OutputValidationFailed,
                             <<"logging">> \o r.stages,
                             r.logged \o <<ValidationError>>, r.headers))
      ELSE Around(r, Outcome(r.db, FALSE, <<>>, r.err, <<"logging">> \o r.stages,
                             r.logged \o <<r.err>>, r.headers))

\* commonProcedure = base.use(logging); authProcedure = common.use(auth).
LoggingMiddleware(ep, db, token, input, newId, at, order) ==
  LogOutcome(IF RequiresAuth(ep)
               THEN AuthMiddleware(ep, db, token, input, newId, at, order)
               ELSE RunHandler(ep, db, NoUser, input, newId, at, order))

\* One call of endpoint ep.
Invoke(ep, db, token, input, newId, at, order) ==
  LoggingMiddleware(ep, db, token, input, newId, at, order)

(***************************************************************************)
(* The state machine: calls arrive one at a time from any client.          *)
(***************************************************************************)
EmptyPayload == Payload({}, 0, EmptyTitle, FALSE, "")

\* create payloads: any title or none, and a valid title together with a
\* userId the client slipped in.
CreatePayloads ==
  {Payload({"title"} \cup k, 0, t, FALSE, u) :
     k \in {{}}, t \in Titles, u \in {""}}
  \cup {Payload({"title", "userId"}, 0, t, FALSE, u) :
          t \in ValidTitles, u \in UserIds}
  \cup {EmptyPayload}

\* toggle / delete payloads: an id or none.
IdPayloads == {Payload({"id"}, i, EmptyTitle, FALSE, "") : i \in Ids} \cup {EmptyPayload}

\* update payloads: an id with every subset of {title, completed}, or no id.
\* The titles the schema rejects come alone, the others also with completed.
UpdatePayloads ==
  {Payload({"id"}, i, EmptyTitle, FALSE, "") : i \in Ids}
  \cup {Payload({"id", "title"}, i, t, FALSE, "") : i \in Ids, t \in Titles}
  \cup {Payload({"id", "completed"}, i, EmptyTitle, c, "") : i \in Ids, c \in BOOLEAN}
  \cup {Payload({"id", "title", "completed"}, i, t, c, "") :
          i \in Ids, t \in ValidTitles, c \in BOOLEAN}
  \cup {EmptyPayload}

Payloads(ep) ==
  CASE ep = "todos.create" -> CreatePayloads
    [] ep = "todos.update" -> UpdatePayloads
    [] ep \in {"todos.toggle", "todos.delete"} -> IdPayloads
    [] OTHER -> {EmptyPayload}

\* The requests (token, payload) the clients issue to endpoint ep.
Requests(ep) == Tokens \X Payloads(ep)

NoCall ==
  [ep |-> "none", token |-> NoToken, input |-> EmptyPayload, at |-> 0,
   ok |-> TRUE, value |-> <<>>, err |-> NoError, stages |-> <<>>,
   logged |-> <<>>, headers |-> {}, identity |-> NoIdentity]

\* No toggle call is between its read and its write.
NoFlight == [token |-> NoToken, input |-> EmptyPayload, user |-> NoUser,
             existing |-> <<>>]

\* The todos page has not fetched its list, and no mutation has settled.
NoCache == [data |-> <<>>, fetched |-> FALSE, isInvalidated |-> FALSE,
            mutation |-> "idle", wasInvalidated |-> FALSE]

Init ==
  /\ todos = {}
  /\ nextId = 1
  /\ now = 0
  /\ last = NoCall
  /\ pre = {}
  /\ inflight = NoFlight
  /\ cache = NoCache

Ran(stages, stage) == \E i \in DOMAIN stages : stages[i] = stage

\* The store and the response after a call whose chain did r.
Respond(ep, token, input, r) ==
  /\ (ep = "todos.create" /\ Ran(r.stages, "service")) => nextId <= MaxTodos
  /\ todos' = r.db
  /\ nextId' = IF ep = "todos.create" /\ Ran(r.stages, "service")
                 THEN nextId + 1 ELSE nextId
  /\ pre' = todos
  /\ last' = [ep |-> ep, token |-> token, input |-> input, at |-> now,
              ok |-> r.ok, value |-> r.value, err |-> r.err,
              stages |-> r.stages, logged |-> r.logged, headers |-> r.headers,
              identity |-> r.identity]
  /\ UNCHANGED now

\* Every call below starts when the client has the response of its previous
\* call, and runs to completion against the store.
Ping ==
  /\ last = NoCall
  /\ \E rq \in Requests("ping") :
       Respond("ping", rq[1], rq[2],
               Invoke("ping", todos, rq[1], rq[2], nextId, now, <<>>))
  /\ UNCHANGED <<inflight, cache>>

GetProfile ==
  /\ last = NoCall
  /\ \E rq \in Requests("getProfile") :
       Respond("getProfile", rq[1], rq[2],
               Invoke("getProfile", todos, rq[1], rq[2], nextId, now, <<>>))
  /\ UNCHANGED <<inflight, cache>>

\* The user the session of `token` belongs to ("" without a live session).
Caller(token, at) ==
  IF GetSession(token, at) = <<>> THEN "" ELSE GetSession(token, at)[1].user.id

\* The store answers findMany with one of the orderings it may produce.
TodosList ==
  /\ last = NoCall
  /\ \E rq \in Requests("todos.list") :
       \E order \in FindManyResults(todos, Caller(rq[1], now)) :
         Respond("todos.list", rq[1], rq[2],
                 Invoke("todos.list", todos, rq[1], rq[2], nextId, now, order))
  /\ UNCHANGED <<inflight, cache>>

TodosCreate ==
  /\ last = NoCall
  /\ \E rq \in Requests("todos.create") :
       Respond("todos.create", rq[1], rq[2],
               Invoke("todos.create", todos, rq[1], rq[2], nextId, now, <<>>))
  /\ UNCHANGED <<inflight, cache>>

TodosToggle ==
  /\ last = NoCall
  /\ \E rq \in Requests("todos.toggle") :
       Respond("todos.toggle", rq[1], rq[2],
               Invoke("todos.toggle", todos, rq[1], rq[2], nextId, now, <<>>))
  /\ UNCHANGED <<inflight, cache>>

TodosUpdate ==
  /\ last = NoCall
  /\ \E rq \in Requests("todos.update") :
       Respond("todos.update", rq[1], rq[2],
               Invoke("todos.update", todos, rq[1], rq[2], nextId, now, <<>>))
  /\ UNCHANGED <<inflight, cache>>

TodosDelete ==
  /\ last = NoCall
  /\ \E rq \in Requests("todos.delete") :
       Respond("todos.delete", rq[1], rq[2],
               Invoke("todos.delete", todos, rq[1], rq[2], nextId, now, <<>>))
  /\ UNCHANGED <<inflight, cache>>

\* The response reaches the client; nothing of the call stays behind on the
\* server.
Deliver ==
  /\ last # NoCall
  /\ last' = NoCall
  /\ pre' = todos
  /\ UNCHANGED <<todos, nextId, now, inflight, cache>>

\* Time passes between calls.
Tick ==
  /\ last = NoCall
  /\ now < MaxClock
  /\ now' = now + 1
  /\ UNCHANGED <<todos, nextId, last, pre, inflight, cache>>

Next ==
  \/ Ping
  \/ GetProfile
  \/ TodosList
  \/ TodosCreate
  \/ TodosToggle
  \/ TodosUpdate
  \/ TodosDelete
  \/ Deliver
  \/ Tick

Spec == Init /\ [][Next]_vars

\* The todos router alone, served within one instant: no session expires
\* and every row gets the same createdAt.
TodosNext ==
  \/ TodosList
  \/ TodosCreate
  \/ TodosToggle
  \/ TodosUpdate
  \/ TodosDelete
  \/ Deliver

SpecTodos == Init /\ [][TodosNext]_vars

(***************************************************************************)
(* Overlapping calls.  toggle awaits the store twice: findFirst, then the  *)
(* update.  Between the two awaits the server serves other calls.  A       *)
(* toggle whose read found its row is `inflight` until its write runs.     *)
(***************************************************************************)
\* toggle up to the end of its findFirst, for a call that got that far: the
\* session is live, the input has an id, the caller's row was found.
ToggleRead ==
  /\ last = NoCall
  /\ inflight = NoFlight
  /\ \E rq \in Requests("todos.toggle") :
       /\ GetSession(rq[1], now) # <<>>
       /\ IdInput(rq[2]).ok
       /\ FindFirst(todos, IdInput(rq[2]).data.id, Caller(rq[1], now)) # <<>>
       /\ inflight' = [token |-> rq[1], input |-> rq[2],
                       user |-> GetSession(rq[1], now)[1].user,
                       existing |-> FindFirst(todos, IdInput(rq[2]).data.id,
                                              Caller(rq[1], now))]
  /\ UNCHANGED <<todos, nextId, now, last, pre, cache>>

\* The rest of that toggle: the update against the store as it is now, the
\* output schema, and the way back out through both middlewares.
ToggleWriteBack ==
  /\ last = NoCall
  /\ inflight # NoFlight
  /\ Respond("todos.toggle", inflight.token, inflight.input,
             LogOutcome(AuthReturn(WithIdentity(
               CheckOutput("todos.toggle",
                 ToggleExisting(todos,
                   ServiceUserId("todos.toggle", inflight.user,
                                 IdInput(inflight.input).data),
                   IdInput(inflight.input).data.id, inflight.existing),
                 <<"input", "handler", "service">>),
               inflight.user.id,
               ServiceUserId("todos.toggle", inflight.user,
                             IdInput(inflight.input).data)))))
  /\ inflight' = NoFlight
  /\ UNCHANGED cache

RaceNext ==
  \/ TodosCreate
  \/ TodosToggle
  \/ TodosDelete
  \/ ToggleRead
  \/ ToggleWriteBack
  \/ Deliver

SpecRace == Init /\ [][RaceNext]_vars

(***************************************************************************)
(* The todos page of one browser (app/todos/page.tsx).  TodosList shows    *)
(* the data of the list query in the query cache; the form and every       *)
(* shown item own a mutation that calls its endpoint and, in onSuccess,    *)
(* invalidates the queries whose key the filter ["todos"] matches.         *)
(***************************************************************************)
\* A query key is a sequence of parts.  A part is a string, an array of
\* strings or an object (its entries written "key:value").
KeyString(s) == [kind |-> "string", items |-> <<s>>]

KeyArray(a) == [kind |-> "array", items |-> a]

KeyObject(entries) == [kind |-> "object", items |-> entries]

\* partialMatchKey on one part: values of different types never match, a
\* string matches itself, an array or object a matches b when everything
\* b has is in a at the same place.
PartMatches(a, b) ==
  /\ a.kind = b.kind
  /\ Len(b.items) <= Len(a.items)
  /\ a.kind = "string" => Len(a.items) = Len(b.items)
  /\ \A i \in DOMAIN b.items : a.items[i] = b.items[i]

\* The filter { queryKey } of invalidateQueries matches a query when every
\* part of the filter key matches the part of the query's key at its place.
PartialMatchKey(queryKey, filterKey) ==
  /\ Len(filterKey) <= Len(queryKey)
  /\ \A i \in DOMAIN filterKey : PartMatches(queryKey[i], filterKey[i])

\* orpc.todos.list.queryOptions({ input: undefined }): the key oRPC builds
\* for a procedure is [path, { type }], the path being one array.
ListQueryKey == <<KeyArray(<<"todos", "list">>), KeyObject(<<"type:query">>)>>

\* { queryKey: ["todos"] }
TodosFilter == <<KeyString("todos")>>

\* queryClient.invalidateQueries(filter) on the cache entry of the list query.
InvalidateQueries(c, filterKey) ==
  IF PartialMatchKey(ListQueryKey, filterKey)
    THEN [c EXCEPT !.isInvalidated = TRUE]
    ELSE c

\* A mutation settles: onSuccess runs for a result, nothing for a failure.
Settled(c, ok) ==
  IF ok
    THEN InvalidateQueries([c EXCEPT !.mutation = "success",
                                     !.wasInvalidated = c.isInvalidated],
                           TodosFilter)
    ELSE [c EXCEPT !.mutation = "error", !.wasInvalidated = c.isInvalidated]

\* The browser is signed in as u1; its cookie is one of u1's sessions.
PageTokens == {s.token : s \in {x \in SessionsTable : x.userId = "u1"}}

\* mutationFn: one call of endpoint ep, issued when the client has the
\* response of its previous call; then the mutation's callbacks.
Mutate(ep, input) ==
  /\ \E token \in PageTokens :
       /\ Respond(ep, token, input,
                  Invoke(ep, todos, token, input, nextId, now, <<>>))
       /\ cache' = Settled(cache,
                           Invoke(ep, todos, token, input, nextId, now, <<>>).ok)
  /\ UNCHANGED inflight

\* AddTodoForm: the resolver lets only what CreateTodoDto accepts through.
CreateMutation ==
  /\ last = NoCall
  /\ \E t \in ValidTitles :
       Mutate("todos.create", Payload({"title"}, 0, t, FALSE, ""))

\* TodoItem of a shown todo: the checkbox.
ToggleMutation ==
  /\ last = NoCall
  /\ \E i \in DOMAIN cache.data :
       Mutate("todos.toggle",
              Payload({"id"}, cache.data[i].id, EmptyTitle, FALSE, ""))

\* TodoItem of a shown todo: the delete button.
DeleteMutation ==
  /\ last = NoCall
  /\ \E i \in DOMAIN cache.data :
       Mutate("todos.delete",
              Payload({"id"}, cache.data[i].id, EmptyTitle, FALSE, ""))

\* The list query fetches: when the page mounts, when the window regains
\* focus, and when the query has been invalidated.  A result replaces the
\* data and clears the invalidation; a failure leaves the entry as it was.
ListQuery ==
  /\ last = NoCall
  /\ \E token \in PageTokens :
       \E order \in FindManyResults(todos, Caller(token, now)) :
         /\ Respond("todos.list", token, EmptyPayload,
                    Invoke("todos.list", todos, token, EmptyPayload, nextId, now,
                           order))
         /\ cache' =
              IF Invoke("todos.list", todos, token, EmptyPayload, nextId, now,
                        order).ok
                THEN [cache EXCEPT !.data = Invoke("todos.list", todos, token,
                                                   EmptyPayload, nextId, now,
                                                   order).value,
                                   !.fetched = TRUE,
                                   !.isInvalidated = FALSE]
                ELSE cache
  /\ UNCHANGED inflight

PageNext ==
  \/ ListQuery
  \/ CreateMutation
  \/ ToggleMutation
  \/ DeleteMutation
  \/ Deliver
  \/ Tick

SpecPage == Init /\ [][PageNext]_vars


(***************************************************************************)
(* Vocabulary of the properties.                                           *)
(***************************************************************************)
MutatingEndpoints == {"todos.toggle", "todos.update", "todos.delete"}

\* The request carried the token of a session whose expiry has not passed.
Authenticated(token, at) ==
  \E s \in SessionsTable : s.token = token /\ ~(s.expiresAt < at)

\* The user that session belongs to.
UserOfToken(token) == (CHOOSE s \in SessionsTable : s.token = token).userId

\* The request satisfies the call surface of its endpoint: an id where one is
\* required, a title of 1..500 characters where one is given or required.
WellFormed(ep, input) ==
  /\ ep \in MutatingEndpoints => "id" \in input.keys
  /\ ep = "todos.create" => "title" \in input.keys
  /\ "title" \in input.keys =>
       TitleLen(input.title) >= 1 /\ TitleLen(input.title) <= 500

\* The latest call was made to ep by a logged-in user with a well-formed
\* request.
ServedCall(eps) ==
  /\ last.ep \in eps
  /\ Authenticated(last.token, last.at)
  /\ WellFormed(last.ep, last.input)

LastCaller == UserOfToken(last.token)

RowsWithId(db, id) == {t \in db : t.id = id}

ValueSet(value) == {value[i] : i \in DOMAIN value}

(***************************************************************************)
(* C1.  For users U1 # U2 and a todo T owned by U1: a toggle, update or    *)
(* delete call by U2 with T's id fails with the not-found failure and      *)
(* leaves T unchanged in the store.                                        *)
(* As stated the property does not hold: update({id}) with neither title   *)
(* nor completed fails in .set() with "No values to set" (see C8) before   *)
(* the ownership predicate is consulted.                                   *)
(***************************************************************************)
C1_ForeignTodoNotFound ==
  ServedCall(MutatingEndpoints) =>
    \A t \in RowsWithId(pre, last.input.id) :
      t.userId # LastCaller =>
        /\ ~last.ok
        /\ last.err = TodoNotFound
        /\ t \in todos

(***************************************************************************)
(* C2.  list called by user U returns exactly the todos whose owner is U:  *)
(* each of them once, none of another user, and an empty result (not a     *)
(* failure) when U owns none.                                              *)
(***************************************************************************)
C2_ListExactlyOwn ==
  ServedCall({"todos.list"}) =>
    /\ last.ok
    /\ ValueSet(last.value) = {t \in pre : t.userId = LastCaller}
    /\ Len(last.value) = Cardinality({t \in pre : t.userId = LastCaller})
    /\ todos = pre

C2_Witness ==
  /\ ServedCall({"todos.list"})
  /\ Len(last.value) = 1
  /\ \E t \in pre : t.userId # LastCaller


(***************************************************************************)
(* C3.  For every valid title, create by a logged-in user succeeds and the *)
(* stored and returned todo's owner is the caller; the same call with any  *)
(* other userId in its payload, or none, returns the same todo and leaves  *)
(* the same store.                                                         *)
(***************************************************************************)
WithPayloadOwner(input, keys, u) ==
  Payload((input.keys \ {"userId"}) \cup keys, input.id, input.title,
          input.completed, u)

C3_CreateOwnerIsCaller ==
  ServedCall({"todos.create"}) =>
    /\ last.ok
    /\ Len(last.value) = 1
    /\ last.value[1].userId = LastCaller
    /\ last.value[1].title = last.input.title
    /\ last.value[1] \notin pre
    /\ todos = pre \cup {last.value[1]}
    /\ \A k \in SUBSET {"userId"}, u \in UserIds :
         /\ Invoke("todos.create", pre, last.token,
                   WithPayloadOwner(last.input, k, u), last.value[1].id,
                   last.at, <<>>).db = todos
         /\ Invoke("todos.create", pre, last.token,
                   WithPayloadOwner(last.input, k, u), last.value[1].id,
                   last.at, <<>>).value = last.value

C3_Witness ==
  /\ ServedCall({"todos.create"})
  /\ "userId" \in last.input.keys
  /\ last.input.userId # LastCaller
  /\ last.ok
  /\ pre # {}

(***************************************************************************)
(* C4.  A call to an endpoint that requires authentication, made with no   *)
(* session token or with the token of an expired session, fails with       *)
(* UNAUTHORIZED; neither the handler nor the service runs and the store is *)
(* as before.                                                              *)
(***************************************************************************)
C4_UnauthenticatedRejected ==
  (last.ep \in Endpoints \ {"ping"} /\ ~Authenticated(last.token, last.at)) =>
    /\ ~last.ok
    /\ last.err = Unauthorized
    /\ ~Ran(last.stages, "input")
    /\ ~Ran(last.stages, "handler")
    /\ ~Ran(last.stages, "service")
    /\ todos = pre

C4_Witness ==
  /\ last.ep = "todos.delete"
  /\ last.token = "s3"
  /\ last.at > 0
  /\ \E t \in RowsWithId(pre, last.input.id) : t.userId = LastCaller
  /\ last.err = Unauthorized

(***************************************************************************)
(* C5.  create by a logged-in user with a title of length 0 or of length   *)
(* above 500 fails with the input validation failure; the handler and the  *)
(* service do not run and no row is inserted.                              *)
(***************************************************************************)
C5_BadTitleRejected ==
  ( /\ last.ep = "todos.create"
    /\ Authenticated(last.token, last.at)
    /\ "title" \in last.input.keys
    /\ (TitleLen(last.input.title) = 0 \/ TitleLen(last.input.title) > 500) ) =>
    /\ ~last.ok
    /\ last.err = InputValidationFailed
    /\ ~Ran(last.stages, "handler")
    /\ ~Ran(last.stages, "service")
    /\ todos = pre

C5_Witness ==
  /\ last.ep = "todos.create"
  /\ Authenticated(last.token, last.at)
  /\ "title" \in last.input.keys
  /\ TitleLen(last.input.title) > 500
  /\ last.err = InputValidationFailed
  /\ pre # {}

(***************************************************************************)
(* C6.  What a logged-in user U gets back from toggle, update or delete    *)
(* does not depend on other users' todos: the response in the current      *)
(* store equals the response in the store holding only U's todos.  So an   *)
(* id that belongs to someone else's todo is answered exactly like an id   *)
(* no todo has.                                                            *)
(***************************************************************************)
Response(r) == [ok |-> r.ok, value |-> r.value, err |-> r.err]

OwnRows(db, u) == {t \in db : t.userId = u}

C6_ForeignLikeMissing ==
  last = NoCall =>
    \A token \in Tokens :
      (/\ Authenticated(token, now)
       /\ OwnRows(todos, UserOfToken(token)) # todos) =>
        \A ep \in MutatingEndpoints :
          \A p \in Payloads(ep) :
            Response(Invoke(ep, todos, token, p, nextId, now, <<>>))
              = Response(Invoke(ep, OwnRows(todos, UserOfToken(token)), token, p,
                                nextId, now, <<>>))

C6_Witness ==
  /\ ServedCall(MutatingEndpoints)
  /\ \E t \in RowsWithId(pre, last.input.id) : t.userId # LastCaller
  /\ last.err = TodoNotFound
  /\ Response(Invoke(last.ep, OwnRows(pre, LastCaller), last.token, last.input,
                     nextId, last.at, <<>>))
       = [ok |-> last.ok, value |-> last.value, err |-> last.err]

(***************************************************************************)
(* C7.  Two toggle calls by the owner on the same todo, one right after    *)
(* the other: both succeed, the first returns the negation of the original *)
(* completed value, the second returns the original value, and the store   *)
(* is the one the first call started from.                                 *)
(***************************************************************************)
SecondToggle ==
  Invoke("todos.toggle", todos, last.token, last.input, nextId, now, <<>>)

C7_ToggleTwiceRestores ==
  ServedCall({"todos.toggle"}) =>
    \A t \in RowsWithId(pre, last.input.id) :
      t.userId = LastCaller =>
        /\ last.ok
        /\ Len(last.value) = 1
        /\ last.value[1].completed = ~t.completed
        /\ Authenticated(last.token, now) =>
             /\ SecondToggle.ok
             /\ Len(SecondToggle.value) = 1
             /\ SecondToggle.value[1].completed = t.completed
             /\ SecondToggle.db = pre

C7_Witness ==
  /\ ServedCall({"todos.toggle"})
  /\ last.ok
  /\ \E t \in RowsWithId(pre, last.input.id) : t.userId = LastCaller /\ t.completed
  /\ last.value[1].completed = FALSE
  /\ Cardinality(pre) = 2

(***************************************************************************)
(* C8.  update by the owner with an id and any subset of {title,           *)
(* completed}, the empty subset included, succeeds and returns the todo    *)
(* with each supplied field set to the supplied value and every other      *)
(* field as before; the store holds that row in place of the old one.      *)
(* As stated the property does not hold: with neither field supplied the   *)
(* values object handed to .set() is empty and the call fails.             *)
(***************************************************************************)
Updated(t, input) ==
  [t EXCEPT !.title = IF "title" \in input.keys THEN input.title ELSE @,
            !.completed = IF "completed" \in input.keys
                            THEN input.completed ELSE @]

C8_UpdateAnySubset ==
  ServedCall({"todos.update"}) =>
    \A t \in RowsWithId(pre, last.input.id) :
      t.userId = LastCaller =>
        /\ last.ok
        /\ last.value = <<Updated(t, last.input)>>
        /\ todos = (pre \ {t}) \cup {Updated(t, last.input)}

(***************************************************************************)
(* C9.  delete by the owner of an existing todo T removes exactly T from   *)
(* the store and returns T as it was before the deletion.                  *)
(***************************************************************************)
C9_DeleteExactlyOne ==
  ServedCall({"todos.delete"}) =>
    \A t \in RowsWithId(pre, last.input.id) :
      t.userId = LastCaller =>
        /\ last.ok
        /\ last.value = <<t>>
        /\ todos = pre \ {t}

C9_Witness ==
  /\ ServedCall({"todos.delete"})
  /\ last.ok
  /\ Cardinality(OwnRows(pre, LastCaller)) = 2
  /\ Cardinality(todos) = 1

(***************************************************************************)
(* C10.  toggle, update and delete called with an id no todo has, such as  *)
(* the id of a todo deleted earlier, fail with the not-found failure and   *)
(* leave the store unchanged.                                              *)
(* As stated the property does not hold: update({id}) with neither title   *)
(* nor completed fails with "No values to set" instead (see C8).           *)
(***************************************************************************)
C10_MissingIdNotFound ==
  (ServedCall(MutatingEndpoints) /\ RowsWithId(pre, last.input.id) = {}) =>
    /\ ~last.ok
    /\ last.err = TodoNotFound
    /\ todos = pre

(***************************************************************************)
(* C11.  When the value a handler returned does not match the endpoint's   *)
(* output schema, the logging middleware logs the validation error and the *)
(* caller receives the failure OUTPUT_VALIDATION_FAILED with that          *)
(* validation error as its cause: not the INTERNAL_SERVER_ERROR the        *)
(* schema check raised, and not a success.                                 *)
(***************************************************************************)
\* The output schema was applied to the latest call's handler result and did
\* not produce a valid response value.
OutputMismatch ==
  /\ Ran(last.stages, "output")
  /\ ~(last.ok /\ ValidOutput(last.ep, last.value))

C11_OutputMismatchRelabelled ==
  /\ OutputMismatch =>
       /\ ~last.ok
       /\ last.err.class = "ORPCError"
       /\ last.err.code = "OUTPUT_VALIDATION_FAILED"
       /\ last.err.cause = "ValidationError"
       /\ last.logged = <<ValidationError>>
  /\ last.err # OutputValidationRaw

\* A toggle whose row was deleted between its read and its write.
C11_Witness ==
  /\ last.ep = "todos.toggle"
  /\ OutputMismatch
  /\ last.err = OutputValidationFailed
  /\ RowsWithId(pre, last.input.id) = {}

(***************************************************************************)
(* C12.  The logging middleware never swallows a failure.  Whenever the    *)
(* stage below it fails, the call fails; a failure that is not an          *)
(* output-schema failure (UNAUTHORIZED, an input validation failure, not   *)
(* found, ...) is logged exactly once and reaches the caller unchanged;    *)
(* an input validation failure is never relabelled                         *)
(* OUTPUT_VALIDATION_FAILED.                                               *)
(***************************************************************************)
\* The id the latest call would have given to a new row.
NextIdBefore ==
  IF last.ep = "todos.create" /\ Ran(last.stages, "service")
    THEN nextId - 1 ELSE nextId

\* What the stage below the logging middleware did in the latest call.
Downstream ==
  IF RequiresAuth(last.ep)
    THEN AuthMiddleware(last.ep, pre, last.token, last.input, NextIdBefore,
                        last.at, last.value)
    ELSE RunHandler(last.ep, pre, NoUser, last.input, NextIdBefore, last.at,
                    last.value)

\* The latest call against d, what the stage below the middleware did.
FailurePassedOn(d) ==
  ~d.ok =>
    /\ ~last.ok
    /\ d.err # OutputValidationRaw =>
         /\ last.err = d.err
         /\ last.logged = <<d.err>>
    /\ d.err = InputValidationFailed =>
         last.err.code # "OUTPUT_VALIDATION_FAILED"

C12_FailuresLoggedAndRethrown ==
  last # NoCall => FailurePassedOn(Downstream)

\* An update with a title beyond the limit: logged once, rethrown as it came.
C12_Witness ==
  /\ last.ep = "todos.update"
  /\ Downstream.err = InputValidationFailed
  /\ last.err = InputValidationFailed
  /\ last.logged = <<InputValidationFailed>>

(***************************************************************************)
(* C13.  A call whose input fails the endpoint's input schema is rejected  *)
(* before the handler runs and before any store access of any kind, the    *)
(* session lookup included.                                                *)
(***************************************************************************)
InvalidInput == last # NoCall /\ ~ParseInput(last.ep, last.input).ok

C13_InvalidInputNoStoreAccess ==
  InvalidInput =>
    /\ ~last.ok
    /\ ~Ran(last.stages, "handler")
    /\ ~Ran(last.stages, "service")
    /\ ~Ran(last.stages, "session")
    /\ todos = pre

\* C13 as the chain has it: such a call never reaches the handler, the
\* service or the todos relation; the session lookup of the authentication
\* step has run before the input schema is applied, and without a live
\* session the call is rejected as UNAUTHORIZED, its input never looked at.
C13_InvalidInputNoHandler ==
  InvalidInput =>
    /\ ~last.ok
    /\ ~Ran(last.stages, "handler")
    /\ ~Ran(last.stages, "service")
    /\ ~Ran(last.stages, "output")
    /\ todos = pre
    /\ nextId = NextIdBefore
    /\ Ran(last.stages, "session")
    /\ IF Authenticated(last.token, last.at)
         THEN /\ last.err = InputValidationFailed
              /\ last.stages = <<"logging", "auth", "session", "input">>
         ELSE /\ last.err = Unauthorized
              /\ ~Ran(last.stages, "input")

\* A logged-in user's toggle without an id, against a store holding a todo.
C13_Witness ==
  /\ last.ep = "todos.toggle"
  /\ InvalidInput
  /\ Authenticated(last.token, last.at)
  /\ last.err = InputValidationFailed
  /\ Ran(last.stages, "session")
  /\ todos # {}

(***************************************************************************)
(* C14.  Every response to a call that passed the authentication step,     *)
(* whether the handler then returned a result or failed, carries           *)
(* Cache-Control: no-store,private,must-revalidate.                        *)
(***************************************************************************)
PassedAuth ==
  /\ last # NoCall
  /\ RequiresAuth(last.ep)
  /\ Authenticated(last.token, last.at)

C14_AuthenticatedResponsesNoStore ==
  PassedAuth => CacheControl \in last.headers

(***************************************************************************)
(* C15.  The failure of toggle, update or delete on a missing or non-owned *)
(* id is a dedicated not-found kind, one of the closed set of error kinds  *)
(* {UNAUTHORIZED, input validation failure, OUTPUT_VALIDATION_FAILED,      *)
(* not-found}: a coded failure, distinguishable from an unclassified       *)
(* internal failure.                                                       *)
(***************************************************************************)
\* The codes of the closed set; not-found is whatever code remains.
ClassifiedCodes == {"UNAUTHORIZED", "BAD_REQUEST", "OUTPUT_VALIDATION_FAILED"}

\* A failure that reaches the call boundary with a kind of its own: a coded
\* ORPCError other than the catch-all INTERNAL_SERVER_ERROR.
HasOwnKind(err) ==
  /\ err.class = "ORPCError"
  /\ err.code \notin {"", "INTERNAL_SERVER_ERROR"}

C15_NotFoundIsDedicatedKind ==
  (/\ ServedCall(MutatingEndpoints)
   /\ {t \in RowsWithId(pre, last.input.id) : t.userId = LastCaller} = {}) =>
    /\ ~last.ok
    /\ HasOwnKind(last.err)
    /\ last.err.code \notin ClassifiedCodes
    /\ last.err # NoValuesToSet

(***************************************************************************)
(* C16.  ping answers "pong" to every caller, whether the request carries  *)
(* the token of a live session, of an expired session, or no token; it     *)
(* performs no session lookup and no store access.                         *)
(***************************************************************************)
C16_PingAlwaysPong ==
  last.ep = "ping" =>
    /\ last.ok
    /\ last.value = <<"pong">>
    /\ last.stages = <<"logging", "input", "handler", "output">>
    /\ ~Ran(last.stages, "session")
    /\ ~Ran(last.stages, "service")
    /\ last.logged = <<>>
    /\ todos = pre

\* ping with the token of a session that has expired.
C16_Witness ==
  /\ last.ep = "ping"
  /\ last.token \in Tokens \ {NoToken}
  /\ ~Authenticated(last.token, last.at)
  /\ last.value = <<"pong">>

(***************************************************************************)
(* C17.  A session whose expiry instant has passed is never accepted by    *)
(* the authentication step, although its row is still in the store: a call *)
(* with the token of an expired session gets exactly what the same call    *)
(* with no token gets.                                                     *)
(***************************************************************************)
\* The tokens of the sessions in the store whose expiry has passed at `at`.
ExpiredTokens(at) == {x.token : x \in {y \in SessionsTable : y.expiresAt < at}}

C18_ServiceGetsContextUser ==
  (RequiresAuth(last.ep) /\ Ran(last.stages, "handler")) =>
    /\ Authenticated(last.token, last.at)
    /\ last.identity.ctx \in UserIds
    /\ last.identity.ctx = UserOfToken(last.token)
    /\ last.ep \in TodosEndpoints =>
         /\ Ran(last.stages, "service")
         /\ last.identity.svc = last.identity.ctx
    /\ \A t \in todos \ pre : t.userId = last.identity.ctx

\* A create whose input names another user: the service was given the
\* caller's id.
C18_Witness ==
  /\ last.ep = "todos.create"
  /\ Ran(last.stages, "service")
  /\ "userId" \in last.input.keys
  /\ last.input.userId \in UserIds \ {last.identity.ctx}
  /\ last.identity.svc = UserOfToken(last.token)

(***************************************************************************)
(* C19.  list returns the caller's todos newest-created-first: of any two  *)
(* todos in the result, the one created later comes earlier, whatever      *)
(* toggle or update calls were made on either since.                       *)
(***************************************************************************)
C19_ListNewestFirst ==
  (last.ep = "todos.list" /\ last.ok) =>
    \A i, j \in DOMAIN last.value :
      last.value[i].createdAt > last.value[j].createdAt => i < j

\* A list of two todos created at different instants, the older one
\* completed since.
C19_Witness ==
  /\ last.ep = "todos.list"
  /\ Len(last.value) = 2
  /\ last.value[1].createdAt > last.value[2].createdAt
  /\ last.value[2].completed

(***************************************************************************)
(* C20.  create with a valid title inserts exactly one new todo, with the  *)
(* given title, completed = false and a generated id different from the id *)
(* of every todo already in the store; it returns that todo and leaves     *)
(* every todo that was there unchanged.                                    *)
(***************************************************************************)
C20_CreateInsertsOneFresh ==
  ServedCall({"todos.create"}) =>
    /\ last.ok
    /\ Len(last.value) = 1
    /\ last.value[1].title = last.input.title
    /\ last.value[1].completed = FALSE
    /\ last.value[1].id \notin {t.id : t \in pre}
    /\ todos = pre \cup {last.value[1]}
    /\ Cardinality(todos) = Cardinality(pre) + 1

\* A second create with the title of a todo the caller already has.
C20_Witness ==
  /\ ServedCall({"todos.create"})
  /\ last.ok
  /\ \E t \in pre : t.title = last.input.title /\ t.userId = LastCaller
  /\ Cardinality(todos) = 2


(***************************************************************************)
(* C21.  In every state reachable through create and update calls made     *)
(* through the endpoints, every stored todo's title is non-empty and at    *)
(* most 500 characters long.                                               *)
(***************************************************************************)
C21_StoredTitlesBounded ==
  \A t \in todos : TitleLen(t.title) >= 1 /\ TitleLen(t.title) <= 500

\* An update that has just replaced a 1-character title by a 500-character
\* one.
C21_Witness ==
  /\ last.ep = "todos.update"
  /\ last.ok
  /\ \E t \in pre : t.id = last.input.id /\ TitleLen(t.title) = 1
  /\ \E t \in todos : t.id = last.input.id /\ TitleLen(t.title) = 500


(***************************************************************************)
(* C22.  Every todo has exactly one owner, fixed when it is created: no    *)
(* list, create, toggle, update or delete call by any user changes the     *)
(* owner id of an existing todo.                                           *)
(***************************************************************************)
C22_OwnerFixed ==
  /\ \A t \in todos : t.userId \in UserIds
  /\ \A t, u \in todos : t.id = u.id => t = u
  /\ \A t \in pre : \A u \in todos : t.id = u.id => t.userId = u.userId

\* An update that changed a todo of its caller, next to a todo of the other
\* user.
C22_Witness ==
  /\ ServedCall({"todos.update"})
  /\ last.ok
  /\ \E t \in pre : t.id = last.input.id /\ t \notin todos
  /\ \E t \in todos : t.id = last.input.id /\ t.userId = LastCaller
  /\ \E t \in todos : t.userId # LastCaller


(***************************************************************************)
(* C23.  A single successful toggle by the owner changes only the          *)
(* completed field of the target todo, to the negation of the value stored *)
(* when the call was made, and returns the row as written; the target's    *)
(* title, id and owner and every other todo are unchanged.                 *)
(***************************************************************************)
Toggled(t) == [t EXCEPT !.completed = ~t.completed]

C23_ToggleChangesOnlyCompleted ==
  (ServedCall({"todos.toggle"}) /\ last.ok) =>
    \E t \in pre :
      /\ t.id = last.input.id
      /\ t.userId = LastCaller
      /\ last.value = <<Toggled(t)>>
      /\ todos = (pre \ {t}) \cup {Toggled(t)}

\* A toggle of one of two todos of the same user, the other one untouched.
C23_Witness ==
  /\ ServedCall({"todos.toggle"})
  /\ last.ok
  /\ last.value[1].completed
  /\ \E t \in todos : /\ t.id # last.input.id
                      /\ t.userId = LastCaller
                      /\ ~t.completed
                      /\ t \in pre


(***************************************************************************)
(* C24.  Two toggle calls by the owner on the same todo that overlap both  *)
(* complete successfully under every interleaving of their reads and       *)
(* writes, and the last write wins: each write stores the negation of the  *)
(* value its own read saw.  When both reads come before either write, the  *)
(* todo ends with the negation of the original value: one toggle is lost.  *)
(***************************************************************************)
\* The row the toggle in flight is after, as the store has it now.
InflightTarget ==
  {t \in todos : /\ t.id = inflight.existing[1].id
                 /\ t.userId = inflight.user.id}

\* What the toggle in flight writes onto row t.
InflightWrites(t) == [t EXCEPT !.completed = ~inflight.existing[1].completed]

\* A step of a toggle overlapping the one in flight: the write of the one in
\* flight, or a whole toggle of the same todo by the same user in between.
C24_Step ==
  (inflight # NoFlight /\ InflightTarget # {}) =>
    /\ inflight' = NoFlight =>
         \E t \in InflightTarget :
           /\ last'.ok
           /\ last'.value = <<InflightWrites(t)>>
           /\ todos' = (todos \ {t}) \cup {InflightWrites(t)}
    /\ (/\ inflight' = inflight
        /\ last' # NoCall
        /\ last'.ep = "todos.toggle"
        /\ last'.token = inflight.token
        /\ last'.input = inflight.input) =>
         \E t \in InflightTarget :
           /\ last'.ok
           /\ last'.value = <<[t EXCEPT !.completed = ~t.completed]>>
           /\ todos' = (todos \ {t}) \cup {[t EXCEPT !.completed = ~t.completed]}

C24_OverlappingTogglesLastWriteWins == [][C24_Step]_vars

\* The second write of two toggles that both read before either wrote: it
\* stored the value the store already held.
C24_Witness ==
  /\ last.ep = "todos.toggle"
  /\ last.ok
  /\ \E t \in pre : /\ t.id = last.input.id
                    /\ t.completed = last.value[1].completed


(***************************************************************************)
(* C25.  Under every interleaving of a toggle with a delete of the same     *)
(* todo by its owner, the toggle either returns the toggled todo or fails  *)
(* with the not-found failure; it never completes with an empty result and *)
(* is never reported as OUTPUT_VALIDATION_FAILED.                          *)
(***************************************************************************)
C25_ToggleOrNotFound ==
  ServedCall({"todos.toggle"}) =>
    /\ \/ last.ok /\ Len(last.value) = 1
       \/ ~last.ok /\ last.err = TodoNotFound
    /\ last.err # OutputValidationFailed


(***************************************************************************)
(* C26.  Every write of toggle, update and delete is conditioned on both   *)
(* the todo id and the caller's id in the statement that performs it, the  *)
(* write that follows toggle's read included: were the row's owner not the *)
(* caller at write time, although the read had matched, the write would    *)
(* modify no row.                                                          *)
(***************************************************************************)
\* The store db with row t handed to owner o.
Reowned(db, t, o) == (db \ {t}) \cup {[t EXCEPT !.userId = o]}

Before(stages, a, b) ==
  \A i, j \in DOMAIN stages : (stages[i] = a /\ stages[j] = b) => i < j

C27_AuthBeforeInputBeforeHandler ==
  (last # NoCall /\ RequiresAuth(last.ep)) =>
    /\ last.stages[1] = "logging"
    /\ last.stages[2] = "auth"
    /\ Before(last.stages, "auth", "input")
    /\ Before(last.stages, "input", "handler")
    /\ Ran(last.stages, "handler") => Ran(last.stages, "input")
    /\ Ran(last.stages, "input") => Authenticated(last.token, last.at)
    /\ (/\ last.ep \in TodosEndpoints \ {"todos.list"}
        /\ ~Authenticated(last.token, last.at)
        /\ ~ParseInput(last.ep, last.input).ok) =>
         last.err = Unauthorized

\* An update without an id and without a session token.
C27_Witness ==
  /\ last.ep = "todos.update"
  /\ last.token = NoToken
  /\ ~ParseInput(last.ep, last.input).ok
  /\ last.err = Unauthorized
  /\ last.stages = <<"logging", "auth", "session">>


(***************************************************************************)
(* C28.  TodosService keeps no state between calls; every result is        *)
(* determined by the arguments and the store at the time of the store      *)
(* statements.  So a list call that starts after a create, toggle, update  *)
(* or delete call by any user has completed reflects that call's effect.   *)
(***************************************************************************)
\* The todos of user u once the latest call, a successful mutation, is
\* done: as before the call for everybody but its caller; for the caller
\* without the row the call was about and, unless it was a delete, with the
\* row the call returned.
ExpectedAfter(u) ==
  IF u # LastCaller THEN OwnRows(pre, u)
  ELSE IF last.ep = "todos.create" THEN OwnRows(pre, u) \cup {last.value[1]}
  ELSE IF last.ep = "todos.delete"
    THEN {t \in OwnRows(pre, u) : t.id # last.input.id}
  ELSE {t \in OwnRows(pre, u) : t.id # last.input.id} \cup {last.value[1]}

C28_ListReflectsCompletedCall ==
  (/\ ServedCall({"todos.create", "todos.toggle", "todos.update", "todos.delete"})
   /\ last.ok) =>
    \A usr \in UsersTable : \A order \in FindManyResults(todos, usr.id) :
      /\ Handler("todos.list", todos, usr, EmptyPayload, nextId, now, order).ok
      /\ ValueSet(Handler("todos.list", todos, usr, EmptyPayload, nextId, now,
                          order).value)
           = ExpectedAfter(usr.id)

\* A delete has completed; a list by its caller no longer has the row, a
\* list by the other user has what it had.
C28_Witness ==
  /\ ServedCall({"todos.delete"})
  /\ last.ok
  /\ ExpectedAfter(LastCaller) # OwnRows(pre, LastCaller)
  /\ \E t \in todos : t.userId # LastCaller


(***************************************************************************)
(* C29  After a create, toggle or delete mutation of the todos page has    *)
(* succeeded, the cached list query is invalidated (so that it refetches   *)
(* and the shown list catches up with the caller's todos in the store); a  *)
(* mutation that failed invalidated nothing.                               *)
(***************************************************************************)
PageMutations == {"todos.create", "todos.toggle", "todos.delete"}

C29_MutationInvalidatesListQuery ==
  (/\ last # NoCall
   /\ last.ep \in PageMutations
   /\ cache.mutation # "idle") =>
    /\ last.ok => cache.isInvalidated
    /\ ~last.ok => cache.isInvalidated = cache.wasInvalidated


(***************************************************************************)
(* C30  Every call of list, create, toggle, update and delete that reaches *)
(* the service completes with a result or a failure after a bounded number *)
(* of store statements: toggle after one read and at most one write, every *)
(* other method after exactly one statement, none of them issued twice.    *)
(***************************************************************************)
\* The statements the service issued for the call just served.
StatementsOfLast ==
  Statements(last.ep, pre, last.identity.svc,
             ParseInput(last.ep, last.input).data)

C30_BoundedStoreStatements ==
  (ServedCall(TodosEndpoints) /\ Ran(last.stages, "service")) =>
    /\ last.ok \/ last.err # NoError
    /\ IF last.ep = "todos.toggle"
         THEN StatementsOfLast \in {<<"findFirst">>, <<"findFirst", "update">>}
         ELSE Len(StatementsOfLast) = 1

====
